---- MODULE Spec2Model ----
(***************************************************************************)
(* A model of pa-permission-renamer (src/main.py): main() parses its       *)
(* arguments, load_mapping() reads the CSV mapping file row by row,        *)
(* process_directory() walks the directory tree with os.walk and, for      *)
(* every name in files + dirs, takes the "simulated change" branch or the  *)
(* "no mapping" branch.  One action is one step of that control flow.      *)
(*                                                                         *)
(* A string is a sequence of symbols.  The symbols are one blank and three *)
(* nine-character permission words, so that different symbol sequences     *)
(* are different strings and str.strip() can be modelled by what it does.  *)
(***************************************************************************)
EXTENDS Integers, Sequences, FiniteSets, TLC

\* ------------------------------------------------------------ bounds
\* Rows in a mapping file of the load specification.
MaxRows == 3
\* Entries below the root directory in the directory trees of Spec.
MaxEntries == 2
\* Invocations of main() one behaviour follows (the second is the re-run).
MaxRuns == 2

\* ------------------------------------------------------------ strings
SP == " "
PermA == "rw-r--r--"
PermB == "rwxr-xr-x"
PermC == "rwx------"

RECURSIVE LStrip(_)
LStrip(s) == IF s # <<>> /\ Head(s) = SP THEN LStrip(Tail(s)) ELSE s

RECURSIVE RStrip(_)
RStrip(s) ==
    IF s # <<>> /\ s[Len(s)] = SP THEN RStrip(SubSeq(s, 1, Len(s) - 1)) ELSE s

\* A plausible slip: only the leading whitespace is removed.
StripLeadingOnly(s) == LStrip(s)

\* str.strip(): leading and trailing whitespace removed, the inside kept.
Strip(s) == RStrip(LStrip(s))

\* ------------------------------------------------------------ dict
EmptyDict == [k \in {} |-> <<>>]

\* A plausible slip: dict.setdefault, the first value of a key is kept.
PutIfAbsent(d, k, v) ==
    [x \in DOMAIN d \cup {k} |-> IF x \in DOMAIN d THEN d[x] ELSE v]

\* mapping[old_permission] = new_permission
Put(d, k, v) == [x \in DOMAIN d \cup {k} |-> IF x = k THEN v ELSE d[x]]

\* main's variable `mapping`: unbound until load_mapping returns.
Unbound == [bound |-> FALSE, dict |-> EmptyDict]
Bound(d) == [bound |-> TRUE, dict |-> d]

\* ------------------------------------------------------------ load_mapping
\* A plausible slip: a bad row is logged and skipped instead of raising.
RowBodySkipBad(d, row) ==
    IF Len(row) # 2
    THEN [exc |-> "none", dict |-> d, warn |-> FALSE]
    ELSE LET old == Strip(row[1])
             new == Strip(row[2])
         IN  IF old = <<>> \/ new = <<>>
             THEN [exc |-> "none", dict |-> d, warn |-> FALSE]
             ELSE [exc |-> "none", dict |-> Put(d, old, new),
                   warn |-> old \in DOMAIN d]

\* The body of `for row in reader`, on the local dict d: the exception it
\* raises ("none": it falls through), the dict after it, and whether it
\* logged the duplicate-key warning.
RowBody(d, row) ==
    IF Len(row) # 2
    THEN [exc |-> "ValueError", dict |-> d, warn |-> FALSE]
    ELSE LET old == Strip(row[1])
             new == Strip(row[2])
         IN  IF old = <<>> \/ new = <<>>
             THEN [exc |-> "ValueError", dict |-> d, warn |-> FALSE]
             ELSE [exc |-> "none", dict |-> Put(d, old, new),
                   warn |-> old \in DOMAIN d]

\* A plausible slip: the handlers log and fall off the end of main.
HandlerExitCodeForgotten(e) == IF e = "OSError" THEN 0 ELSE 1

\* Each except clause of main ends in sys.exit(1); argparse's own error
\* exit is SystemExit(2), which no clause catches.
HandlerExitCode(e) == IF e = "SystemExit" THEN 2 ELSE 1

\* ------------------------------------------------------------ the tree
\* A directory tree: the root is node 0, the entries below it are 1..n.
\* kind[e] is what lstat says of e, parent[e] the directory that holds it
\* and target[e] what a symbolic link points to (0: the root; any entry,
\* itself or another link included).
Kinds == {"file", "dir", "link"}
NoDir == -1

WellFormedTree(t) ==
    \A e \in 1..t.n :
        /\ t.parent[e] < e
        /\ t.parent[e] = 0 \/ t.kind[t.parent[e]] = "dir"
        /\ t.kind[e] # "link" => t.target[e] = 0

TreesOf(n) ==
    {t \in [n : {n}, rootKind : {"dir"}, kind : [1..n -> Kinds],
            parent : [1..n -> 0..n], target : [1..n -> 0..n]] :
        WellFormedTree(t)}

\* A root path that is missing, or names a regular file.
BadRoot(k) ==
    [n |-> 0, rootKind |-> k, kind |-> <<>>, parent |-> <<>>, target |-> <<>>]

\* A plausible slip: os.path.exists instead of os.path.isdir.
RootExists(t) == t.rootKind # "missing"

\* os.path.isdir(directory)
IsDir(t) == t.rootKind = "dir"

\* os.path.islink(new_path) inside os.walk
IsLink(t, e) == e # 0 /\ t.kind[e] = "link"

\* Where following the links from e ends: a directory (its node), or
\* NoDir for a regular file and for a chain of links that loops.
RECURSIVE ResolveDir(_, _, _)
ResolveDir(t, e, fuel) ==
    IF e = 0 THEN (IF IsDir(t) THEN 0 ELSE NoDir)
    ELSE IF t.kind[e] = "dir" THEN e
    ELSE IF t.kind[e] = "file" \/ fuel = 0 THEN NoDir
    ELSE ResolveDir(t, t.target[e], fuel - 1)

\* DirEntry.is_dir(), which follows symbolic links.
EntryIsDir(t, e) == ResolveDir(t, e, t.n) # NoDir

\* os.scandir(top): the entries of the directory top names.
Children(t, top) ==
    IF ResolveDir(t, top, t.n) = NoDir THEN {}
    ELSE {e \in 1..t.n : t.parent[e] = ResolveDir(t, top, t.n)}

RECURSIVE AscSeq(_)
AscSeq(S) ==
    IF S = {} THEN <<>>
    ELSE LET m == CHOOSE x \in S : \A y \in S : x <= y
         IN  <<m>> \o AscSeq(S \ {m})

RECURSIVE Reverse(_)
Reverse(s) == IF s = <<>> THEN <<>> ELSE Reverse(Tail(s)) \o <<Head(s)>>

\* The lists os.walk yields for top, in one stable order.
WalkDirs(t, top) == AscSeq({e \in Children(t, top) : EntryIsDir(t, e)})
WalkFiles(t, top) == AscSeq({e \in Children(t, top) : ~EntryIsDir(t, e)})

\* A plausible slip: only the file names are looped over.
NamesFilesOnly(t, top) == WalkFiles(t, top)

\* `for name in files + _`
Names(t, top) == WalkFiles(t, top) \o WalkDirs(t, top)

\* A plausible slip: os.walk(directory, followlinks=True).
DescendFollowingLinks(t, e) == TRUE

\* os.walk's `if followlinks or not islink(new_path)`, followlinks False.
ShouldDescend(t, e) == ~IsLink(t, e)

\* What resuming the generator pushes: the sub-directories of the
\* directory just yielded, reversed, on top of the stack.
Pushed(t, stk, top) ==
    IF top = NoDir THEN stk
    ELSE stk \o Reverse(SelectSeq(WalkDirs(t, top),
                                  LAMBDA e : ShouldDescend(t, e)))

\* ------------------------------------------------------------ the loop body
PlaceholderPermissions == <<PermB>>

\* A plausible slip: the entry's own permission is read.
ReadActualPermissions(fs, e) == fs[e]

\* current_permissions = "rwxr-xr-x"  # Placeholder
CurrentPermissions(fs, e) == PlaceholderPermissions

\* What a real implementation would do: read the entry's permission and
\* write the mapped one.
EntryBodyReadWrite(fs, m, e) ==
    IF fs[e] \in DOMAIN m
    THEN [status |-> "applied", new |-> m[fs[e]], level |-> "INFO",
          fs |-> [fs EXCEPT ![e] = m[fs[e]]]]
    ELSE [status |-> "skipped", new |-> <<>>, level |-> "DEBUG", fs |-> fs]

\* The body of the loop over names for entry e: the branch taken, the
\* level of its log call, and the permissions of the filesystem after it.
EntryBody(fs, m, e) ==
    IF CurrentPermissions(fs, e) \in DOMAIN m
    THEN [status |-> "applied", new |-> m[CurrentPermissions(fs, e)],
          level |-> "INFO", fs |-> fs]
    ELSE [status |-> "skipped", new |-> <<>>, level |-> "DEBUG", fs |-> fs]

\* ------------------------------------------------------------ inputs
\* The raw fields of the load specification's mapping files.
KeyFields == {<<SP>>, <<PermA>>, <<SP, PermA, SP>>, <<PermB>>, <<PermC>>}
ValueFields == {<<SP>>, <<PermA>>, <<PermB, SP>>}

\* The rows csv.reader yields: two fields, or (a blank line, a line with
\* no comma, a line with two commas) none, one or three.
Rows ==
    {<<k, v>> : k \in KeyFields, v \in ValueFields}
        \cup {<<>>, <<<<PermA>>>>, <<<<PermA>>, <<PermB>>, <<PermB>>>>}

RECURSIVE SeqsUpTo(_, _)
SeqsUpTo(S, n) ==
    IF n = 0 THEN {<<>>}
    ELSE LET shorter == SeqsUpTo(S, n - 1)
         IN  shorter \cup {Append(f, r) : f \in {g \in shorter : Len(g) = n - 1},
                                         r \in S}

LoadFiles == SeqsUpTo(Rows, MaxRows)

\* The mapping files of Spec: "rw-r--r--,rwxr-xr-x" (the mapping of the
\* end-to-end example), one that has the placeholder as a key, and bad ones.
RowAB == <<<<PermA>>, <<PermB>>>>
RowBA == <<<<PermB>>, <<SP, PermA>>>>
RowOneField == <<<<PermA>>>>
MainFiles ==
    {<<>>, <<RowAB>>, <<RowBA>>, <<RowAB, RowBA>>, <<RowBA, RowOneField>>}

PermStrings == {<<PermA>>, <<PermB>>, <<PermC>>}

Trees ==
    UNION {TreesOf(n) : n \in 0..MaxEntries}
        \cup {BadRoot("missing"), BadRoot("file")}

\* The tree of the load specification: one file below the root.
OneFileTree ==
    [n |-> 1, rootKind |-> "dir", kind |-> <<"file">>, parent |-> <<0>>,
     target |-> <<0>>]

\* ------------------------------------------------------------ state
VARIABLES
    pc,          \* where main is: args, load, rows, process, walk, exit
    fileState,   \* the mapping path: missing, unreadable, ok
    rows,        \* the rows of the mapping file
    tree,        \* the directory tree under the root argument
    fsPerm,      \* the permission each entry of the tree really has
    rowIdx,      \* load_mapping: the next row of the reader
    local,       \* load_mapping: its local dict `mapping`
    warnings,    \* the keys of the duplicate-key warnings logged
    mapping,     \* main: its variable `mapping`
    stack,       \* os.walk: the directories still to list (top last)
    cur,         \* os.walk: the directory last yielded
    pending,     \* process_directory: the names still to loop over
    yielded,     \* the entries os.walk has put in a dirs or files list
    report,      \* one record for each run of the loop body
    exitCode,    \* the exit status, once pc = "exit"
    err,         \* the exception that ended the run, "none" without one
    runNo,       \* which invocation this is
    prevReport   \* the report of the invocation before

vars ==
    <<pc, fileState, rows, tree, fsPerm, rowIdx, local, warnings, mapping,
      stack, cur, pending, yielded, report, exitCode, err, runNo, prevReport>>

input == <<fileState, rows, tree>>
loadVars == <<rowIdx, local, warnings>>
walkVars == <<stack, cur, pending, yielded, report>>

Running == -1

Fresh ==
    /\ rowIdx = 1
    /\ local = EmptyDict
    /\ warnings = <<>>
    /\ mapping = Unbound
    /\ stack = <<>>
    /\ cur = NoDir
    /\ pending = <<>>
    /\ yielded = <<>>
    /\ report = <<>>
    /\ exitCode = Running
    /\ err = "none"
    /\ runNo = 1
    /\ prevReport = <<>>

Init ==
    /\ pc = "args"
    /\ \/ fileState \in {"missing", "unreadable"} /\ rows = <<>>
       \/ fileState = "ok" /\ rows \in MainFiles
    /\ tree \in Trees
    /\ fsPerm \in [1..tree.n -> PermStrings]
    /\ Fresh

InitLoad ==
    /\ pc = "load"
    /\ \/ fileState \in {"missing", "unreadable"} /\ rows = <<>>
       \/ fileState = "ok" /\ rows \in LoadFiles
    /\ tree = OneFileTree
    /\ fsPerm = <<<<PermA>>>>
    /\ Fresh

\* The dict load_mapping returns for a file of well-formed rows.
RECURSIVE Loaded(_)
Loaded(f) ==
    IF f = <<>> THEN EmptyDict
    ELSE RowBody(Loaded(SubSeq(f, 1, Len(f) - 1)), f[Len(f)]).dict

\* process_directory is entered: the mapping file (empty, or with the
\* placeholder as its key) has been loaded, every entry is rw-r--r--.
InitWalk ==
    /\ pc = "process"
    /\ fileState = "ok"
    /\ rows \in {<<>>, <<RowBA>>}
    /\ tree \in Trees
    /\ fsPerm = [e \in 1..tree.n |-> <<PermA>>]
    /\ rowIdx = Len(rows) + 1
    /\ local = Loaded(rows)
    /\ warnings = <<>>
    /\ mapping = Bound(Loaded(rows))
    /\ stack = <<>>
    /\ cur = NoDir
    /\ pending = <<>>
    /\ yielded = <<>>
    /\ report = <<>>
    /\ exitCode = Running
    /\ err = "none"
    /\ runNo = 1
    /\ prevReport = <<>>

\* The run ends with exception e, or (e = "none") by main returning.
Exit(e) ==
    /\ pc' = "exit"
    /\ err' = e
    /\ exitCode' = IF e = "none" THEN 0 ELSE HandlerExitCode(e)

\* ------------------------------------------------------------ main
\* setup_argparse returns; -v only lowers the logger's threshold.
SetupArgparse ==
    /\ pc = "args"
    /\ pc' = "load"
    /\ UNCHANGED <<input, fsPerm, loadVars, mapping, walkVars, exitCode, err,
                   runNo, prevReport>>

\* A required option is missing: parser.error raises SystemExit(2).
ArgparseError ==
    /\ pc = "args"
    /\ Exit("SystemExit")
    /\ UNCHANGED <<input, fsPerm, loadVars, mapping, walkVars, runNo,
                   prevReport>>

\* ------------------------------------------------------------ load_mapping
LoadMappingNotFound ==
    /\ pc = "load"
    /\ fileState = "missing"
    /\ Exit("FileNotFoundError")
    /\ UNCHANGED <<input, fsPerm, loadVars, mapping, walkVars, runNo,
                   prevReport>>

\* open() succeeds, or fails inside the try and is re-raised as ValueError.
LoadMappingOpen ==
    /\ pc = "load"
    /\ fileState # "missing"
    /\ IF fileState = "ok"
       THEN /\ pc' = "rows"
            /\ rowIdx' = 1
            /\ local' = EmptyDict
            /\ UNCHANGED <<exitCode, err>>
       ELSE /\ Exit("ValueError")
            /\ UNCHANGED <<rowIdx, local>>
    /\ UNCHANGED <<input, fsPerm, warnings, mapping, walkVars, runNo,
                   prevReport>>

\* One turn of `for row in reader`.
LoadRow ==
    /\ pc = "rows"
    /\ rowIdx <= Len(rows)
    /\ LET r == RowBody(local, rows[rowIdx])
       IN  IF r.exc = "none"
           THEN /\ local' = r.dict
                /\ warnings' = IF r.warn
                               THEN Append(warnings, Strip(rows[rowIdx][1]))
                               ELSE warnings
                /\ rowIdx' = rowIdx + 1
                /\ UNCHANGED <<pc, exitCode, err>>
           ELSE /\ Exit("ValueError")
                /\ UNCHANGED <<rowIdx, local, warnings>>
    /\ UNCHANGED <<input, fsPerm, mapping, walkVars, runNo, prevReport>>

\* The reader is exhausted: `return mapping`, bound to main's variable.
LoadReturn ==
    /\ pc = "rows"
    /\ rowIdx > Len(rows)
    /\ mapping' = Bound(local)
    /\ pc' = "process"
    /\ UNCHANGED <<input, fsPerm, loadVars, walkVars, exitCode, err, runNo,
                   prevReport>>

\* ------------------------------------------------------------ process_directory
ProcessDirectoryBadRoot ==
    /\ pc = "process"
    /\ ~IsDir(tree)
    /\ Exit("OSError")
    /\ UNCHANGED <<input, fsPerm, loadVars, mapping, walkVars, runNo,
                   prevReport>>

\* os.walk(directory) is created: its stack holds the root.
ProcessDirectoryStart ==
    /\ pc = "process"
    /\ IsDir(tree)
    /\ pc' = "walk"
    /\ stack' = <<0>>
    /\ cur' = NoDir
    /\ UNCHANGED <<input, fsPerm, loadVars, mapping, pending, yielded, report,
                   exitCode, err, runNo, prevReport>>

\* The inner loop is over: the generator is resumed, pushes the
\* sub-directories of the directory it had yielded, pops the next
\* directory and yields it.  A path scandir cannot list is passed over.
WalkNext ==
    /\ pc = "walk"
    /\ pending = <<>>
    /\ LET stk == Pushed(tree, stack, cur)
       IN  /\ stk # <<>>
           /\ LET top == stk[Len(stk)]
              IN  /\ stack' = SubSeq(stk, 1, Len(stk) - 1)
                  /\ IF ResolveDir(tree, top, tree.n) = NoDir
                     THEN /\ cur' = NoDir
                          /\ UNCHANGED <<pending, yielded>>
                     ELSE /\ cur' = top
                          /\ pending' = Names(tree, top)
                          /\ yielded' = yielded \o WalkFiles(tree, top)
                                                \o WalkDirs(tree, top)
    /\ UNCHANGED <<pc, input, fsPerm, loadVars, mapping, report, exitCode,
                   err, runNo, prevReport>>

\* One turn of `for name in files + _`.
ProcessEntry ==
    /\ pc = "walk"
    /\ pending # <<>>
    /\ LET e == Head(pending)
           r == EntryBody(fsPerm, mapping.dict, e)
       IN  /\ report' = Append(report, [entry |-> e, dir |-> cur,
                                        status |-> r.status, new |-> r.new,
                                        level |-> r.level])
           /\ fsPerm' = r.fs
    /\ pending' = Tail(pending)
    /\ UNCHANGED <<pc, input, loadVars, mapping, stack, cur, yielded,
                   exitCode, err, runNo, prevReport>>

\* os.walk is exhausted: "Directory processed.", and main returns.
WalkDone ==
    /\ pc = "walk"
    /\ pending = <<>>
    /\ Pushed(tree, stack, cur) = <<>>
    /\ Exit("none")
    /\ UNCHANGED <<input, fsPerm, loadVars, mapping, walkVars, runNo,
                   prevReport>>

\* An exception no code path of the program raises itself (MemoryError,
\* say).  Inside load_mapping's try it is re-raised as ValueError; anywhere
\* else main's last clause catches it.
UnexpectedError ==
    /\ pc \in {"load", "rows", "process", "walk"}
    /\ Exit(IF pc = "rows" THEN "ValueError" ELSE "Exception")
    /\ UNCHANGED <<input, fsPerm, loadVars, mapping, walkVars, runNo,
                   prevReport>>

\* The program is invoked again with the same arguments, on the
\* filesystem as the completed run left it.
Rerun ==
    /\ pc = "exit"
    /\ exitCode = 0
    /\ runNo < MaxRuns
    /\ pc' = "args"
    /\ rowIdx' = 1
    /\ local' = EmptyDict
    /\ warnings' = <<>>
    /\ mapping' = Unbound
    /\ stack' = <<>>
    /\ cur' = NoDir
    /\ pending' = <<>>
    /\ yielded' = <<>>
    /\ report' = <<>>
    /\ exitCode' = Running
    /\ err' = "none"
    /\ runNo' = runNo + 1
    /\ prevReport' = report
    /\ UNCHANGED <<input, fsPerm>>

NextLoad ==
    \/ LoadMappingNotFound
    \/ LoadMappingOpen
    \/ LoadRow
    \/ LoadReturn

Next ==
    \/ SetupArgparse
    \/ ArgparseError
    \/ LoadMappingNotFound
    \/ LoadMappingOpen
    \/ LoadRow
    \/ LoadReturn
    \/ ProcessDirectoryBadRoot
    \/ ProcessDirectoryStart
    \/ WalkNext
    \/ ProcessEntry
    \/ WalkDone
    \/ UnexpectedError
    \/ Rerun

Spec == Init /\ [][Next]_vars

SpecLoad == InitLoad /\ [][NextLoad]_vars

\* process_directory alone.  The program is sequential and every call it
\* makes returns, so a step that can be taken is taken.
NextWalk ==
    \/ ProcessDirectoryBadRoot
    \/ ProcessDirectoryStart
    \/ WalkNext
    \/ ProcessEntry
    \/ WalkDone

SpecWalk == InitWalk /\ [][NextWalk]_vars /\ WF_vars(NextWalk)

\* ------------------------------------------------------------ properties
\* What the claims say of a field and of a row, stated without the
\* model's Strip and RowBody.
NonBlankAt(f) == {k \in 1..Len(f) : f[k] # SP}
Blank(f) == NonBlankAt(f) = {}
Trimmed(f) ==
    IF Blank(f) THEN <<>>
    ELSE LET lo == CHOOSE k \in NonBlankAt(f) : \A j \in NonBlankAt(f) : k <= j
             hi == CHOOSE k \in NonBlankAt(f) : \A j \in NonBlankAt(f) : j <= k
         IN  SubSeq(f, lo, hi)
RowWellFormed(row) == Len(row) = 2 /\ ~Blank(row[1]) /\ ~Blank(row[2])
AllRowsWellFormed == \A i \in 1..Len(rows) : RowWellFormed(rows[i])
LoadOver == pc \notin {"args", "load", "rows"}
CountStatus(rep, st) == Cardinality({i \in 1..Len(rep) : rep[i].status = st})
RecordsOf(rep, e) == {i \in 1..Len(rep) : rep[i].entry = e}
Completed == pc = "exit" /\ err = "none"

\* C1: load_mapping is all-or-nothing.  Once the load is over, a mapping
\* file with a row that has not exactly two fields, or a field that is
\* blank after trimming, has ended the run in ValueError with main's
\* mapping never bound, whatever well-formed rows came first; and whenever
\* main's mapping is bound, every row of the file is well-formed.
C1_AllOrNothing ==
    /\ mapping.bound => fileState = "ok" /\ AllRowsWellFormed
    /\ (LoadOver /\ fileState = "ok" /\ ~AllRowsWellFormed)
           => pc = "exit" /\ err = "ValueError" /\ mapping = Unbound

\* C1's case: the second row is the offending one, the first was read
\* into the local dict, and nothing was returned.
C1_Witness ==
    /\ pc = "exit"
    /\ err = "ValueError"
    /\ Len(rows) >= 2
    /\ RowWellFormed(rows[1])
    /\ ~RowWellFormed(rows[2])
    /\ local # EmptyDict
    /\ mapping = Unbound

\* C4: N well-formed rows with pairwise distinct trimmed keys load into a
\* table of exactly N entries, the trimmed old value of each row mapped to
\* the trimmed new value of that row.
C4_DistinctKeys ==
    /\ AllRowsWellFormed
    /\ \A i, j \in 1..Len(rows) :
           i # j => Trimmed(rows[i][1]) # Trimmed(rows[j][1])

C4_ExactlyNEntries ==
    (LoadOver /\ fileState = "ok" /\ C4_DistinctKeys)
        => /\ mapping.bound
           /\ Cardinality(DOMAIN mapping.dict) = Len(rows)
           /\ \A i \in 1..Len(rows) :
                  /\ Trimmed(rows[i][1]) \in DOMAIN mapping.dict
                  /\ mapping.dict[Trimmed(rows[i][1])] = Trimmed(rows[i][2])

\* C4's case: three rows with distinct keys, one key and one value padded.
C4_Witness ==
    /\ mapping.bound
    /\ C4_DistinctKeys
    /\ Len(rows) = 3
    /\ \E i \in 1..3 : rows[i][1] # Trimmed(rows[i][1])
    /\ \E i \in 1..3 : rows[i][2] # Trimmed(rows[i][2])

\* The keys of the rows, among the first n, whose key an earlier row had.
RECURSIVE DuplicateKeys(_)
DuplicateKeys(n) ==
    IF n = 0 THEN <<>>
    ELSE DuplicateKeys(n - 1)
             \o (IF \E j \in 1..(n - 1) :
                        Trimmed(rows[j][1]) = Trimmed(rows[n][1])
                 THEN <<Trimmed(rows[n][1])>>
                 ELSE <<>>)

LastRowWith(k) ==
    CHOOSE i \in 1..Len(rows) :
        /\ Trimmed(rows[i][1]) = k
        /\ \A j \in (i + 1)..Len(rows) : Trimmed(rows[j][1]) # k

\* C5: with several well-formed rows of one key the load succeeds, the
\* table holds for each key the new value of the last row with that key,
\* and the warnings logged are exactly one for each row whose key an
\* earlier row had, in row order, and none for a row with a new key.
C5_LastWinsWarnOnce ==
    /\ fileState = "ok" => warnings = DuplicateKeys(rowIdx - 1)
    /\ (LoadOver /\ fileState = "ok" /\ AllRowsWellFormed)
           => /\ mapping.bound
              /\ DOMAIN mapping.dict =
                     {Trimmed(rows[i][1]) : i \in 1..Len(rows)}
              /\ \A k \in DOMAIN mapping.dict :
                     mapping.dict[k] = Trimmed(rows[LastRowWith(k)][2])

\* C5's case: three rows of one key, the last value differing from the
\* first, two warnings.
C5_Witness ==
    /\ mapping.bound
    /\ Len(rows) = 3
    /\ Cardinality(DOMAIN mapping.dict) = 1
    /\ Trimmed(rows[1][2]) # Trimmed(rows[3][2])
    /\ Len(warnings) = 2

\* Nothing of the tree has been listed or looped over in this run.
NothingExamined ==
    yielded = <<>> /\ report = <<>> /\ pending = <<>> /\ cur = NoDir

FatalPrecondition ==
    pc = "exit" /\ err \in {"FileNotFoundError", "ValueError", "OSError"}

\* C2: a run that ends in a fatal precondition failure (mapping file
\* missing or unreadable, a bad row, a root that is no directory) has
\* examined no entry; process_directory starts only with the mapping
\* bound from a file whose rows were all validated, and the walk starts
\* only on a root that is a directory.
C2_FatalBeforeTraversal ==
    /\ FatalPrecondition => NothingExamined
    /\ pc \in {"process", "walk"}
           => mapping.bound /\ fileState = "ok" /\ AllRowsWellFormed
    /\ (pc = "walk" \/ ~NothingExamined) => tree.rootKind = "dir"

\* C2's case: a good row, then a bad one, over a tree that has entries.
C2_Witness ==
    /\ FatalPrecondition
    /\ err = "ValueError"
    /\ rows = <<RowBA, RowOneField>>
    /\ tree.rootKind = "dir"
    /\ tree.n >= 1

\* The tree of the end-to-end example: two regular files in the root,
\* the first rw-r--r--, the second rwx------.
C3_Scenario ==
    /\ fileState = "ok"
    /\ rows = <<<<<<"rw-r--r--">>, <<"rwxr-xr-x">>>>>>
    /\ tree.rootKind = "dir"
    /\ tree.n = 2
    /\ \A e \in 1..2 : tree.kind[e] = "file" /\ tree.parent[e] = 0
    /\ fsPerm = <<<<"rw-r--r--">>, <<"rwx------">>>>

\* C3: end to end, each entry's outcome follows from its own permission.
\* With the mapping rw-r--r-- -> rwxr-xr-x over the example tree the
\* completed run has applied = 1, skipped = 1, failed = 0: the first file
\* applied with new permission rwxr-xr-x, the second skipped.
C3_EndToEnd ==
    (C3_Scenario /\ Completed)
        => /\ CountStatus(report, "applied") = 1
           /\ CountStatus(report, "skipped") = 1
           /\ CountStatus(report, "failed") = 0
           /\ \A i \in RecordsOf(report, 1) :
                  report[i].status = "applied"
                      /\ report[i].new = <<"rwxr-xr-x">>
           /\ \A i \in RecordsOf(report, 2) : report[i].status = "skipped"

\* C6: every entry the traversal reaches gets exactly one outcome.  No
\* entry ever has two records, every listed entry is looped over or still
\* pending, and when a run completes every entry of the tree has exactly
\* one record and applied + skipped + failed is the number of entries.
C6_OneOutcomePerEntry ==
    /\ \A i \in 1..Len(report) :
           report[i].status \in {"applied", "skipped", "failed"}
    /\ \A e \in 1..tree.n : Cardinality(RecordsOf(report, e)) <= 1
    /\ pc = "walk" => Len(report) + Len(pending) = Len(yielded)
    /\ Completed
           => /\ \A e \in 1..tree.n : Cardinality(RecordsOf(report, e)) = 1
              /\ \A i \in 1..Len(yielded) :
                     Cardinality(RecordsOf(report, yielded[i])) = 1
              /\ CountStatus(report, "applied") + CountStatus(report, "skipped")
                     + CountStatus(report, "failed") = Len(yielded)
              /\ Len(yielded) = tree.n

\* C6's case: a completed run over a directory that holds a file.
C6_Witness ==
    /\ Completed
    /\ tree.n = 2
    /\ tree.kind = <<"dir", "file">>
    /\ tree.parent = <<0, 1>>
    /\ Len(report) = 2

\* C7: the exit status is 0 exactly when main returned from a completed
\* traversal, whatever the outcomes of its entries, and non-zero for
\* every run ended by an exception: mapping file not found, bad mapping
\* file, bad root directory, unexpected error.
C7_ExitCode ==
    pc = "exit"
        => /\ exitCode = 0 <=> err = "none"
           /\ exitCode = 0
                  => /\ mapping.bound
                     /\ tree.rootKind = "dir"
                     /\ stack = <<>> /\ pending = <<>>
                     /\ Len(report) = tree.n
           /\ err \in {"FileNotFoundError", "ValueError", "OSError",
                       "Exception", "SystemExit"} => exitCode # 0

\* C7's case: a run that completed with every entry skipped.
C7_Witness ==
    /\ pc = "exit"
    /\ exitCode = 0
    /\ Len(report) = 2
    /\ \A i \in 1..2 : report[i].status = "skipped"

NoRepeat(q) == \A i, j \in 1..Len(q) : i # j => q[i] # q[j]

\* No symbolic link is listed as a directory of its own or waits on the
\* stack, every record was made in the directory that holds its entry,
\* and no entry was listed or looped over twice.
C8_Safety ==
    /\ \A i \in 1..Len(stack) : ~IsLink(tree, stack[i])
    /\ cur = NoDir \/ ~IsLink(tree, cur)
    /\ \A i \in 1..Len(report) :
           report[i].dir = tree.parent[report[i].entry]
    /\ NoRepeat(yielded)
    /\ NoRepeat([i \in 1..Len(report) |-> report[i].entry])
    /\ Completed
           => \A e \in 1..tree.n :
                  tree.kind[e] = "link" => RecordsOf(report, e) # {}

\* C8: symbolic links are never traversed into.  On every tree, with
\* links that loop among them, every walk that starts ends, each link is
\* visited as an entry of the directory that holds it, and no entry is
\* visited twice.
C8_SymlinksNotFollowed ==
    /\ [](C8_Safety)
    /\ (pc = "walk") ~> (pc = "exit")

\* C8's case: a completed walk over two links that point at each other.
C8_Witness ==
    /\ Completed
    /\ tree.n = 2
    /\ tree.kind = <<"link", "link">>
    /\ tree.target = <<2, 1>>
    /\ Len(report) = 2

\* Every record so far is the branch the hardcoded rwxr-xr-x selects.
C9_Uniform ==
    IF <<"rwxr-xr-x">> \in DOMAIN mapping.dict
    THEN \A i \in 1..Len(report) :
             /\ report[i].status = "applied"
             /\ report[i].new = mapping.dict[<<"rwxr-xr-x">>]
    ELSE \A i \in 1..Len(report) : report[i].status = "skipped"

\* C9: process_directory inspects and changes nothing.  Within a run
\* either every entry, file or directory, is reported as a simulated
\* change to mapping[rwxr-xr-x] or every entry is reported as having no
\* mapping, whatever its own permission; no step changes a permission of
\* the filesystem, and no step of the walk changes the mapping table.
C9_PlaceholderOnly ==
    /\ [](C9_Uniform)
    /\ [][fsPerm' = fsPerm /\ (pc = "walk" => mapping' = mapping)]_vars

\* C9's case: a file and a directory with different permissions, neither
\* of them rwxr-xr-x, both reported as changed.
C9_Witness ==
    /\ Completed
    /\ tree.n = 2
    /\ tree.kind = <<"dir", "file">>
    /\ fsPerm = <<<<PermA>>, <<PermC>>>>
    /\ \A i \in 1..2 : report[i].status = "applied"

\* In a completed second run, every entry the first run applied is
\* applied again, to the same new permission.
C10_AppliedAgain ==
    (runNo >= 2 /\ Completed)
        => \A i \in 1..Len(prevReport) :
               prevReport[i].status = "applied"
                   => \E j \in 1..Len(report) :
                          /\ report[j].entry = prevReport[i].entry
                          /\ report[j].status = "applied"
                          /\ report[j].new = prevReport[i].new

====
